---- MODULE Spec2Model ----
(***************************************************************************)
(* Typed attribute layer of ics/attendee.py: the descriptors              *)
(* PersonProperty and PersonMultiProperty reading, writing and deleting   *)
(* entries of a Person's raw property store `extra`, and Person.__init__. *)
(***************************************************************************)
EXTENDS Integers, Sequences, FiniteSets, TLC

VARIABLES
    heap,   \* the Python objects a reference can point to: ref -> object
    ents,   \* the Person instances: id -> [cls, email, extra (a ref), attrs]
    last,   \* the most recent call and its outcome
    nops    \* accessor and raw-store operations performed so far

vars == <<heap, ents, last, nops>>

----------------------------------------------------------------------------
(* Bounds of the model *)

MaxLen    == 2   \* longest raw value sequence / longest list given to a set
MaxObjs   == 1   \* objects the caller creates to pass as `extra`
MaxEnts   == 2   \* Person instances
MaxKwargs == 2   \* named initialization values in one constructor call
MaxOps    == 1   \* operations after which a run of Spec stops

----------------------------------------------------------------------------
(* Python values.  A value is a pair <<type tag, payload>>. *)

NoneVal     == <<"none", "">>
StrVal(s)   == <<"str", s>>
BoolVal(b)  == <<"bool", b>>
UriVal(u)   == <<"uri", u>>
ListVal(xs) == <<"list", xs>>

\* A raw store entry: what `extra[name]` holds.  The declared type is
\* List[str] ("list"); a bare str is the other shape a caller can put there.
ListEntry(items) == [shape |-> "list", items |-> items]
StrEntry(chars)  == [shape |-> "str", items |-> chars]

\* The outcome of a call: a returned value or a raised exception.
Return(v)        == [kind |-> "return", val |-> v, exc |-> "", info |-> <<>>]
Raise(exc, info) == [kind |-> "raise", val |-> NoneVal, exc |-> exc, info |-> info]

\* dict operations used by the source
EmptyDict == [n \in {} |-> ListEntry(<<>>)]
DictSet(d, k, v) == [n \in (DOMAIN d) \cup {k} |-> IF n = k THEN v ELSE d[n]]
DictPop(d, k) == [n \in (DOMAIN d) \ {k} |-> d[n]]

----------------------------------------------------------------------------
(* Conversion capabilities (ics.valuetype): parse and serialize. *)

UriRaws == {"mailto:x", "mailto:y"}

Parse(converter, raw) ==
    CASE converter = "RawTextConverter" -> Return(StrVal(raw))
      [] converter = "BooleanConverter" ->
            IF raw = "TRUE" THEN Return(BoolVal("True"))
            ELSE IF raw = "FALSE" THEN Return(BoolVal("False"))
            ELSE Raise("ValueFormatError", <<raw>>)
      [] converter = "URIConverter" ->
            IF raw \in UriRaws THEN Return(UriVal(raw))
            ELSE Raise("ValueFormatError", <<raw>>)

\* The result of serialize is a raw string, carried as a str value.
Serialize(converter, value) ==
    CASE converter = "RawTextConverter" /\ value[1] = "str" -> Return(StrVal(value[2]))
      [] converter = "BooleanConverter" /\ value[1] = "bool" ->
            Return(StrVal(IF value[2] = "True" THEN "TRUE" ELSE "FALSE"))
      [] converter = "URIConverter" /\ value[1] = "uri" -> Return(StrVal(value[2]))
      [] OTHER -> Raise("ConversionError", <<>>)

----------------------------------------------------------------------------
(* The descriptors *)

\* attribute name -> the descriptor declared for it, and the class declaring it
Descriptors ==
    [sent_by |-> [owner |-> "Person", kind |-> "PersonProperty", name |-> "SENT-BY",
                  converter |-> "URIConverter", default |-> NoneVal],
     common_name |-> [owner |-> "Person", kind |-> "PersonProperty", name |-> "CN",
                  converter |-> "RawTextConverter", default |-> NoneVal],
     directory |-> [owner |-> "Person", kind |-> "PersonProperty", name |-> "DIR",
                  converter |-> "URIConverter", default |-> NoneVal],
     user_type |-> [owner |-> "Attendee", kind |-> "PersonProperty", name |-> "CUTYPE",
                  converter |-> "RawTextConverter", default |-> StrVal("INDIVIDUAL")],
     member |-> [owner |-> "Attendee", kind |-> "PersonMultiProperty", name |-> "MEMBER",
                  converter |-> "URIConverter", default |-> NoneVal],
     role |-> [owner |-> "Attendee", kind |-> "PersonProperty", name |-> "ROLE",
                  converter |-> "RawTextConverter", default |-> StrVal("REQ-PARTICIPANT")],
     status |-> [owner |-> "Attendee", kind |-> "PersonProperty", name |-> "PARTSTAT",
                  converter |-> "RawTextConverter", default |-> StrVal("NEEDS-ACTION")],
     rsvp |-> [owner |-> "Attendee", kind |-> "PersonProperty", name |-> "RSVP",
                  converter |-> "BooleanConverter", default |-> BoolVal("False")],
     delegated_to |-> [owner |-> "Attendee", kind |-> "PersonMultiProperty",
                  name |-> "DELEGATED-TO",
                  converter |-> "URIConverter", default |-> NoneVal],
     delegated_from |-> [owner |-> "Attendee", kind |-> "PersonMultiProperty",
                  name |-> "DELEGATED-FROM",
                  converter |-> "URIConverter", default |-> NoneVal]]

AttrNames == DOMAIN Descriptors

Classes == {"Organizer", "Attendee"}

\* the attributes of class cls that resolve to a descriptor
DeclaredAttrs(cls) ==
    {a \in AttrNames : Descriptors[a].owner = "Person" \/ Descriptors[a].owner = cls}

SingleAttrs(cls) == {a \in DeclaredAttrs(cls) : Descriptors[a].kind = "PersonProperty"}
MultiAttrs(cls)  == {a \in DeclaredAttrs(cls) : Descriptors[a].kind = "PersonMultiProperty"}

\* the ValueError of PersonProperty.__get__ is the cardinality failure
CardinalityError == "ValueError"

\* PersonProperty.__get__ changed to take the first of several values
PersonProperty_get_first(self, extra) ==
    IF self.name \notin DOMAIN extra THEN Return(self.default)
    ELSE LET value == extra[self.name].items IN
         IF Len(value) = 0 THEN Return(self.default)
         ELSE Parse(self.converter, value[1])

PersonProperty_get(self, extra) ==
    IF self.name \notin DOMAIN extra THEN Return(self.default)
    ELSE LET value == extra[self.name].items IN
         IF Len(value) = 0 THEN Return(self.default)
         ELSE IF Len(value) = 1 THEN Parse(self.converter, value[1])
         ELSE Raise(CardinalityError, value)

\* PersonProperty.__set__ changed to append to the values already there
PersonProperty_set_append(self, extra, value) ==
    LET s == Serialize(self.converter, value)
        old == IF self.name \in DOMAIN extra THEN extra[self.name].items ELSE <<>>
    IN IF s.kind = "raise" THEN [extra |-> extra, res |-> s]
       ELSE [extra |-> DictSet(extra, self.name, ListEntry(Append(old, s.val[2]))),
             res |-> Return(NoneVal)]

\* PersonProperty.__set__ changed to rebuild the store with its entry alone
PersonProperty_set_rebuild(self, extra, value) ==
    LET s == Serialize(self.converter, value) IN
    IF s.kind = "raise" THEN [extra |-> extra, res |-> s]
    ELSE [extra |-> DictSet(EmptyDict, self.name, ListEntry(<<s.val[2]>>)),
          res |-> Return(NoneVal)]

\* a set or delete yields the store it leaves behind and what it raised
PersonProperty_set(self, extra, value) ==
    LET s == Serialize(self.converter, value) IN
    IF s.kind = "raise" THEN [extra |-> extra, res |-> s]
    ELSE [extra |-> DictSet(extra, self.name, ListEntry(<<s.val[2]>>)),
          res |-> Return(NoneVal)]

\* PersonProperty.__delete__ changed to empty the entry and keep the name
PersonProperty_delete_clear(self, extra) ==
    [extra |-> DictSet(extra, self.name, ListEntry(<<>>)), res |-> Return(NoneVal)]

PersonProperty_delete(self, extra) ==
    [extra |-> DictPop(extra, self.name), res |-> Return(NoneVal)]

\* [f(v) for v in xs], given the outcomes rs[i] of f(xs[i]): the first element
\* that raises ends the comprehension
Comprehend(rs) ==
    LET bad == {i \in 1..Len(rs) : rs[i].kind = "raise"} IN
    IF bad # {} THEN rs[CHOOSE i \in bad : \A j \in bad : i <= j]
    ELSE Return(ListVal([i \in 1..Len(rs) |-> rs[i].val]))

\* PersonMultiProperty.__get__ changed to treat an empty entry like PersonProperty
PersonMultiProperty_get_symmetric(self, extra) ==
    IF self.name \notin DOMAIN extra THEN Return(self.default)
    ELSE IF Len(extra[self.name].items) = 0 THEN Return(self.default)
    ELSE LET value == extra[self.name].items
         IN Comprehend([i \in 1..Len(value) |-> Parse(self.converter, value[i])])

PersonMultiProperty_get(self, extra) ==
    IF self.name \notin DOMAIN extra THEN Return(self.default)
    ELSE LET value == extra[self.name].items
         IN Comprehend([i \in 1..Len(value) |-> Parse(self.converter, value[i])])

\* PersonMultiProperty.__set__ changed to store the values last to first
PersonMultiProperty_set_reversed(self, extra, value) ==
    LET ser(v) == Serialize(self.converter, v)
        s == IF value[1] = "list"
             THEN Comprehend([i \in 1..Len(value[2]) |-> ser(value[2][i])])
             ELSE Raise("TypeError", <<>>)
        n == Len(s.val[2])
    IN IF s.kind = "raise" THEN [extra |-> extra, res |-> s]
       ELSE [extra |-> DictSet(extra, self.name,
                         ListEntry([i \in 1..n |-> s.val[2][n + 1 - i][2]])),
             res |-> Return(NoneVal)]

\* PersonMultiProperty.__set__ changed to append value by value to a cleared entry
PersonMultiProperty_set_stepwise(self, extra, value) ==
    LET ser(v) == Serialize(self.converter, v)
        s == IF value[1] = "list"
             THEN Comprehend([i \in 1..Len(value[2]) |-> ser(value[2][i])])
             ELSE Raise("TypeError", <<>>)
        bad == IF value[1] = "list"
               THEN {i \in 1..Len(value[2]) : ser(value[2][i]).kind = "raise"}
               ELSE {}
        k == IF bad = {} THEN 0 ELSE CHOOSE i \in bad : \A j \in bad : i <= j
    IN IF s.kind = "raise" /\ value[1] # "list" THEN [extra |-> extra, res |-> s]
       ELSE IF s.kind = "raise"
       THEN [extra |-> DictSet(extra, self.name,
                         ListEntry([i \in 1..(k - 1) |-> ser(value[2][i]).val[2]])),
             res |-> s]
       ELSE [extra |-> DictSet(extra, self.name,
                         ListEntry([i \in 1..Len(s.val[2]) |-> s.val[2][i][2]])),
             res |-> Return(NoneVal)]

PersonMultiProperty_set(self, extra, value) ==
    LET ser(v) == Serialize(self.converter, v)
        s == IF value[1] = "list"
             THEN Comprehend([i \in 1..Len(value[2]) |-> ser(value[2][i])])
             ELSE Raise("TypeError", <<>>)   \* `for v in value` on a non-iterable
    IN IF s.kind = "raise" THEN [extra |-> extra, res |-> s]
       ELSE [extra |-> DictSet(extra, self.name,
                         ListEntry([i \in 1..Len(s.val[2]) |-> s.val[2][i][2]])),
             res |-> Return(NoneVal)]

PersonMultiProperty_delete(self, extra) ==
    [extra |-> DictPop(extra, self.name), res |-> Return(NoneVal)]

\* instance.<a> and instance.<a> = value, by the class of the descriptor bound to a
Descriptor_get(a, extra) ==
    IF Descriptors[a].kind = "PersonProperty"
    THEN PersonProperty_get(Descriptors[a], extra)
    ELSE PersonMultiProperty_get(Descriptors[a], extra)

Descriptor_set(a, extra, value) ==
    IF Descriptors[a].kind = "PersonProperty"
    THEN PersonProperty_set(Descriptors[a], extra, value)
    ELSE PersonMultiProperty_set(Descriptors[a], extra, value)

Descriptor_delete(a, extra) ==
    IF Descriptors[a].kind = "PersonProperty"
    THEN PersonProperty_delete(Descriptors[a], extra)
    ELSE PersonMultiProperty_delete(Descriptors[a], extra)

----------------------------------------------------------------------------
(* Person.__init__ *)

NoAttrs == [n \in {} |-> NoneVal]

\* objects on the heap
FreeObj    == [kind |-> "free", d |-> EmptyDict]
NoneObj    == [kind |-> "None", d |-> EmptyDict]
OtherObj   == [kind |-> "list", d |-> EmptyDict]     \* a non-mapping, e.g. []
DictObj(d) == [kind |-> "dict", d |-> d]

\* ics.utils.check_is_instance(name, value, clazz)
check_is_instance(name, value, clazz) ==
    IF value.kind = clazz THEN Return(NoneVal) ELSE Raise("TypeError", <<name>>)

\* setattr(self, key, val): a descriptor of the class takes the assignment,
\* any other name is stored in the instance's own attribute dictionary
setattr(cls, st, key, val) ==
    IF key \in DeclaredAttrs(cls) THEN
        LET w == Descriptor_set(key, st.extra, val)
        IN [extra |-> w.extra, attrs |-> st.attrs, res |-> w.res]
    ELSE [extra |-> st.extra, attrs |-> DictSet(st.attrs, key, val),
          res |-> Return(NoneVal)]

RECURSIVE SetAttrs(_, _, _)
\* for key, val in kwargs.items(): setattr(self, key, val)
SetAttrs(cls, st, kwargs) ==
    IF kwargs = <<>> \/ st.res.kind = "raise" THEN st
    ELSE SetAttrs(cls, setattr(cls, st, Head(kwargs)[1], Head(kwargs)[2]), Tail(kwargs))

\* extra: the object passed as `extra` (NoneObj when none is passed).
\* Yields the store and instance attributes the call leaves, and what it raised.
Person_init(cls, email, extra, kwargs) ==
    LET chk == IF extra.kind = "None" THEN Return(NoneVal)
               ELSE check_is_instance("extra", extra, "dict")
    IN IF chk.kind = "raise" THEN [extra |-> extra.d, attrs |-> NoAttrs, res |-> chk]
       ELSE SetAttrs(cls, [extra |-> extra.d, attrs |-> NoAttrs, res |-> Return(NoneVal)],
                     kwargs)

----------------------------------------------------------------------------
(* State *)

CallerRefs == 1..MaxObjs
EntIds     == 1..MaxEnts
Refs       == 1..(MaxObjs + MaxEnts)
\* the dict() that Person.__init__ creates for instance e
FreshRef(e) == MaxObjs + e

NoEnt == [cls |-> "none", email |-> "", extra |-> 0, attrs |-> NoAttrs]

\* pre: the raw store the call found
Call(op, ent, attr, arg, res, pre) ==
    [op |-> op, ent |-> ent, attr |-> attr, arg |-> arg, res |-> res,
     kwargs |-> <<>>, pre |-> pre]

Alive(e) == ents[e].cls # "none"
ExtraOf(e) == heap[ents[e].extra].d

Init ==
    /\ heap = [r \in Refs |-> FreeObj]
    /\ ents = [e \in EntIds |-> NoEnt]
    /\ last = Call("init", 0, "", NoneVal, Return(NoneVal), EmptyDict)
    /\ nops = 0

----------------------------------------------------------------------------
(* Operations *)

\* the caller creates an object that it may pass as `extra`
NewObject(obj) ==
    /\ \E r \in CallerRefs : heap[r].kind = "free"
    /\ LET r == CHOOSE r \in CallerRefs :
                  heap[r].kind = "free" /\ \A q \in CallerRefs : q < r => heap[q].kind # "free"
       IN heap' = [heap EXCEPT ![r] = obj]
    /\ last' = Call("new", 0, "", NoneVal, Return(NoneVal), EmptyDict)
    /\ UNCHANGED <<ents, nops>>

\* cls(email, extra=heap[x], **kwargs); x = 0 stands for no `extra` argument
Construct(cls, email, x, kwargs) ==
    /\ \E e \in EntIds : ~Alive(e)
    /\ x # 0 => heap[x].kind # "free"
    /\ LET e   == CHOOSE e \in EntIds : ~Alive(e) /\ \A q \in EntIds : q < e => Alive(q)
           obj == IF x = 0 THEN NoneObj ELSE heap[x]
           ref == IF x = 0 THEN FreshRef(e) ELSE x
           r   == Person_init(cls, email, obj, kwargs)
           ok  == r.res.kind = "return"
       IN /\ heap' = IF (x = 0 /\ ok) \/ (x # 0 /\ obj.kind = "dict")
                     THEN [heap EXCEPT ![ref] = DictObj(r.extra)]
                     ELSE heap
          /\ ents' = IF ok
                     THEN [ents EXCEPT ![e] = [cls |-> cls, email |-> email,
                                               extra |-> ref, attrs |-> r.attrs]]
                     ELSE ents
          /\ last' = [op |-> "construct", ent |-> e, attr |-> cls,
                      arg |-> <<"ref", x>>, res |-> r.res, kwargs |-> kwargs,
                      pre |-> obj.d]
    /\ UNCHANGED nops

\* extra[name] = entry, written directly in a raw store
RawWrite(r, name, entry) ==
    /\ heap[r].kind = "dict"
    /\ heap' = [heap EXCEPT ![r] = DictObj(DictSet(heap[r].d, name, entry))]
    /\ last' = Call("raw", r, name, NoneVal, Return(NoneVal), heap[r].d)
    /\ nops' = nops + 1
    /\ UNCHANGED ents

PGet(e, a) ==
    /\ Alive(e) /\ a \in SingleAttrs(ents[e].cls)
    /\ last' = Call("get", e, a, NoneVal, PersonProperty_get(Descriptors[a], ExtraOf(e)),
                    ExtraOf(e))
    /\ nops' = nops + 1
    /\ UNCHANGED <<heap, ents>>

PSet(e, a, v) ==
    /\ Alive(e) /\ a \in SingleAttrs(ents[e].cls)
    /\ LET w == PersonProperty_set(Descriptors[a], ExtraOf(e), v)
       IN /\ heap' = [heap EXCEPT ![ents[e].extra] = DictObj(w.extra)]
          /\ last' = Call("set", e, a, v, w.res, ExtraOf(e))
    /\ nops' = nops + 1
    /\ UNCHANGED ents

PDelete(e, a) ==
    /\ Alive(e) /\ a \in SingleAttrs(ents[e].cls)
    /\ LET w == PersonProperty_delete(Descriptors[a], ExtraOf(e))
       IN /\ heap' = [heap EXCEPT ![ents[e].extra] = DictObj(w.extra)]
          /\ last' = Call("delete", e, a, NoneVal, w.res, ExtraOf(e))
    /\ nops' = nops + 1
    /\ UNCHANGED ents

MGet(e, a) ==
    /\ Alive(e) /\ a \in MultiAttrs(ents[e].cls)
    /\ last' = Call("get", e, a, NoneVal,
                    PersonMultiProperty_get(Descriptors[a], ExtraOf(e)), ExtraOf(e))
    /\ nops' = nops + 1
    /\ UNCHANGED <<heap, ents>>

MSet(e, a, v) ==
    /\ Alive(e) /\ a \in MultiAttrs(ents[e].cls)
    /\ LET w == PersonMultiProperty_set(Descriptors[a], ExtraOf(e), v)
       IN /\ heap' = [heap EXCEPT ![ents[e].extra] = DictObj(w.extra)]
          /\ last' = Call("set", e, a, v, w.res, ExtraOf(e))
    /\ nops' = nops + 1
    /\ UNCHANGED ents

MDelete(e, a) ==
    /\ Alive(e) /\ a \in MultiAttrs(ents[e].cls)
    /\ LET w == PersonMultiProperty_delete(Descriptors[a], ExtraOf(e))
       IN /\ heap' = [heap EXCEPT ![ents[e].extra] = DictObj(w.extra)]
          /\ last' = Call("delete", e, a, NoneVal, w.res, ExtraOf(e))
    /\ nops' = nops + 1
    /\ UNCHANGED ents

----------------------------------------------------------------------------
(* Inputs *)

SeqsUpTo(S, n) == UNION {[1..k -> S] : k \in 0..n}

\* every property name with a typed accessor, and one without
Names == {Descriptors[a].name : a \in AttrNames} \cup {"X-FOO"}

\* the values of a converter's type
ValidValues(converter) ==
    CASE converter = "RawTextConverter" -> {StrVal("ACCEPTED"), StrVal("TRUE")}
      [] converter = "BooleanConverter" -> {BoolVal("True"), BoolVal("False")}
      [] converter = "URIConverter" -> {UriVal(u) : u \in UriRaws}

\* what a caller assigns to a single-valued attribute: a value of the type, or None
SetValues(a) == ValidValues(Descriptors[a].converter) \cup {NoneVal}

\* what a caller assigns to a multi-valued attribute: a list of those, or None
MultiSetValues(a) == {ListVal(xs) : xs \in SeqsUpTo(SetValues(a), MaxLen)} \cup {NoneVal}

\* raw strings found in a store that the document parser filled
RawValues == {"TRUE", "mailto:x"}

\* an entry of such a store: a list of raw strings, or a bare string
Entries == {ListEntry(xs) : xs \in SeqsUpTo(RawValues, MaxLen)} \cup {StrEntry(<<"O", "K">>)}

\* Raw stores supplied at construction: empty, one entry, or two entries of
\* which one holds a single value.
Stores ==
    {EmptyDict} \cup
    UNION {UNION {{[n \in {f, b} |-> IF n = f THEN en ELSE ListEntry(<<"TRUE">>)] :
                      b \in Names} :
                  en \in Entries} :
           f \in Names}

----------------------------------------------------------------------------
(* SpecAcc: one accessor operation on a Person constructed over any store *)

InitAcc ==
    \E cls \in Classes, d \in Stores :
        /\ heap = [r \in Refs |-> IF r = 1 THEN DictObj(d) ELSE FreeObj]
        /\ ents = [e \in EntIds |->
                      IF e = 1 THEN [cls |-> cls, email |-> "a@example.com",
                                     extra |-> 1, attrs |-> NoAttrs]
                      ELSE NoEnt]
        /\ last = Call("init", 0, "", NoneVal, Return(NoneVal), EmptyDict)
        /\ nops = 0

NextAcc ==
    \/ \E e \in EntIds, a \in AttrNames : nops = 0 /\ PGet(e, a)
    \/ \E e \in EntIds, a \in AttrNames : \E v \in SetValues(a) : nops = 0 /\ PSet(e, a, v)
    \/ \E e \in EntIds, a \in AttrNames : nops = 0 /\ PDelete(e, a)
    \/ \E e \in EntIds, a \in AttrNames : nops = 0 /\ MGet(e, a)
    \/ \E e \in EntIds, a \in AttrNames : \E v \in MultiSetValues(a) :
          nops = 0 /\ MSet(e, a, v)
    \/ \E e \in EntIds, a \in AttrNames : nops = 0 /\ MDelete(e, a)

SpecAcc == InitAcc /\ [][NextAcc]_vars

----------------------------------------------------------------------------
(* Spec: construction and use of Person instances *)

\* the objects a caller passes as `extra`
ExtraObjects ==
    {DictObj(EmptyDict),
     DictObj([n \in {"PARTSTAT"} |-> StrEntry(<<"O", "K">>)]),
     OtherObj}

\* name=value pairs given to the constructor
KwPairs ==
    {<<"status", StrVal("ACCEPTED")>>,
     <<"delegated_to", ListVal(<<UriVal("mailto:x"), UriVal("mailto:y")>>)>>,
     <<"nickname", StrVal("Al")>>}

\* **kwargs: each name at most once, in the order written
Kwargs ==
    {kw \in SeqsUpTo(KwPairs, MaxKwargs) :
        \A i, j \in 1..Len(kw) : i # j => kw[i][1] # kw[j][1]}

\* the attributes Spec exercises after construction
UsedAttrs == {"common_name", "status", "delegated_to"}

Next ==
    \/ \E obj \in ExtraObjects : NewObject(obj)
    \/ \E cls \in Classes, x \in {0} \cup CallerRefs, kw \in Kwargs :
          Construct(cls, "a@example.com", x, kw)
    \/ \E r \in Refs :
          nops < MaxOps /\ RawWrite(r, "PARTSTAT", ListEntry(<<"ACCEPTED", "TENTATIVE">>))
    \/ \E e \in EntIds, a \in UsedAttrs : nops < MaxOps /\ PGet(e, a)
    \/ \E e \in EntIds, a \in UsedAttrs : nops < MaxOps /\ PSet(e, a, StrVal("ACCEPTED"))
    \/ \E e \in EntIds, a \in UsedAttrs : nops < MaxOps /\ PDelete(e, a)
    \/ \E e \in EntIds, a \in UsedAttrs : nops < MaxOps /\ MGet(e, a)
    \/ \E e \in EntIds, a \in UsedAttrs :
          nops < MaxOps /\ MSet(e, a, ListVal(<<UriVal("mailto:x"), UriVal("mailto:y")>>))
    \/ \E e \in EntIds, a \in UsedAttrs : nops < MaxOps /\ MDelete(e, a)

Spec == Init /\ [][Next]_vars

----------------------------------------------------------------------------
(* Properties of one accessor operation (checked under SpecAcc) *)

IsAccessorCall == last.op \in {"get", "set", "delete"}
IsSingle == Descriptors[last.attr].kind = "PersonProperty"
IsMulti  == Descriptors[last.attr].kind = "PersonMultiProperty"
LastDesc == Descriptors[last.attr]
LastName == Descriptors[last.attr].name
\* the raw store of the instance the call was made on, as the call left it
Now == ExtraOf(last.ent)
\* the raw values the call found under the accessor's name (none when absent)
Found == IF LastName \in DOMAIN last.pre THEN last.pre[LastName].items ELSE <<>>

\* C1: after set(v) on a single-valued accessor with a valid v, the entry is
\* exactly the one-element list [serialize(v)] and get() returns v, whatever
\* the entry held before.
C1_SetThenGet ==
    (last.op = "set" /\ IsSingle /\ last.arg \in ValidValues(LastDesc.converter)) =>
        /\ last.res.kind = "return"
        /\ LastName \in DOMAIN Now
        /\ Now[LastName] = ListEntry(<<Serialize(LastDesc.converter, last.arg).val[2]>>)
        /\ PersonProperty_get(LastDesc, Now) = Return(last.arg)

\* a valid set on an entry that held two raw values
C1_Witness ==
    /\ last.op = "set" /\ IsSingle /\ last.arg \in ValidValues(LastDesc.converter)
    /\ Len(Found) >= 2
    /\ PersonProperty_get(LastDesc, Now) = Return(last.arg)

\* C2: after set(values) on a multi-valued accessor with valid values, the
\* entry holds the serialized values in the given order, duplicates kept, in
\* place of what was there, and get() returns the same sequence.
C2_MultiSetThenGet ==
    (/\ last.op = "set" /\ IsMulti /\ last.arg[1] = "list"
     /\ \A i \in 1..Len(last.arg[2]) : last.arg[2][i] \in ValidValues(LastDesc.converter)) =>
        /\ last.res.kind = "return"
        /\ LastName \in DOMAIN Now
        /\ Now[LastName].shape = "list"
        /\ Len(Now[LastName].items) = Len(last.arg[2])
        /\ \A i \in 1..Len(last.arg[2]) :
              Now[LastName].items[i] = Serialize(LastDesc.converter, last.arg[2][i]).val[2]
        /\ PersonMultiProperty_get(LastDesc, Now) = Return(last.arg)

\* two different values set in an order that is not the one found, over an entry
\* that was there
C2_Witness ==
    /\ last.op = "set" /\ IsMulti /\ last.arg[1] = "list"
    /\ last.arg[2] = <<UriVal("mailto:y"), UriVal("mailto:x")>>
    /\ LastName \in DOMAIN last.pre
    /\ PersonMultiProperty_get(LastDesc, Now) = Return(last.arg)

\* two equal adjacent values set and read back
C2_WitnessDuplicates ==
    /\ last.op = "set" /\ IsMulti /\ last.arg[1] = "list"
    /\ last.arg[2] = <<UriVal("mailto:x"), UriVal("mailto:x")>>
    /\ Now[LastName].items = <<"mailto:x", "mailto:x">>

\* C3: delete() removes the accessor's name from the raw store, changes
\* nothing when the name is absent, a second delete changes nothing, and a
\* get() right after returns the configured default.
C3_DeleteThenGet ==
    last.op = "delete" =>
        /\ last.res.kind = "return"
        /\ LastName \notin DOMAIN Now
        /\ (LastName \notin DOMAIN last.pre => Now = last.pre)
        /\ Descriptor_delete(last.attr, Now).extra = Now
        /\ Descriptor_get(last.attr, Now) = Return(LastDesc.default)

\* status deleted while it had a value: it reads "NEEDS-ACTION" again
C3_Witness ==
    /\ last.op = "delete" /\ last.attr = "status"
    /\ Len(Found) = 1
    /\ Descriptor_get("status", Now) = Return(StrVal("NEEDS-ACTION"))

\* C4: get() of a single-valued accessor whose name holds two or more raw
\* values raises the cardinality error carrying those values.
C4_TooManyValues ==
    (last.op = "get" /\ IsSingle /\ Len(Found) >= 2) =>
        last.res = Raise(CardinalityError, Found)

C4_Witness ==
    /\ last.op = "get" /\ IsSingle
    /\ Found = <<"TRUE", "mailto:x">>
    /\ last.res.kind = "raise"

\* C5: a get, set or delete on the accessor of name N leaves every entry of
\* another name as it was, present or absent, and a get leaves the whole
\* store as it was.
C5_OtherEntriesUntouched ==
    IsAccessorCall =>
        /\ \A m \in ((DOMAIN Now) \cup (DOMAIN last.pre)) \ {LastName} :
              /\ m \in DOMAIN Now
              /\ m \in DOMAIN last.pre
              /\ Now[m] = last.pre[m]
        /\ (last.op = "get" => Now = last.pre)

\* a set that went through while another name had an entry
C5_Witness ==
    /\ last.op = "set" /\ last.res.kind = "return"
    /\ \E m \in DOMAIN last.pre : m # LastName /\ m \in DOMAIN Now
    /\ Now # last.pre

\* C6: on a name present with an empty sequence, a single-valued get()
\* returns the default and a multi-valued get() returns the empty list, which
\* is not the default; a multi-valued get() returns the default exactly when
\* the name is absent.
C6_EmptyEntry ==
    last.op = "get" =>
        /\ (LastName \in DOMAIN last.pre /\ Found = <<>> /\ IsSingle) =>
              last.res = Return(LastDesc.default)
        /\ (LastName \in DOMAIN last.pre /\ Found = <<>> /\ IsMulti) =>
              /\ last.res = Return(ListVal(<<>>))
              /\ last.res # Return(LastDesc.default)
        /\ IsMulti => (last.res = Return(LastDesc.default) <=> LastName \notin DOMAIN last.pre)

C6_Witness ==
    /\ last.op = "get" /\ IsMulti
    /\ LastName \in DOMAIN last.pre /\ Found = <<>>
    /\ last.res = Return(ListVal(<<>>))

\* the single-valued side of C6
C6_WitnessSingle ==
    /\ last.op = "get" /\ IsSingle /\ last.attr = "rsvp"
    /\ LastName \in DOMAIN last.pre /\ Found = <<>>
    /\ last.res = Return(BoolVal("False"))

\* C10: an accessor operation that raises leaves the raw store as it found it.
C10_FailureLeavesStore ==
    (IsAccessorCall /\ last.res.kind = "raise") => Now = last.pre

\* a multi-valued set that fails on its second element, over an entry that
\* held something else than the first element
C10_Witness ==
    /\ last.op = "set" /\ IsMulti /\ last.res.kind = "raise"
    /\ last.arg = ListVal(<<UriVal("mailto:y"), NoneVal>>)
    /\ Found = <<"TRUE">>

----------------------------------------------------------------------------
(* Properties of construction and ownership (checked under Spec) *)

\* the store left by set on the accessors named in kwargs, in that order
RECURSIVE SetInOrder(_, _)
SetInOrder(extra, kwargs) ==
    IF kwargs = <<>> THEN extra
    ELSE SetInOrder(Descriptor_set(Head(kwargs)[1], extra, Head(kwargs)[2]).extra,
                    Tail(kwargs))

WellShaped(d) == \A n \in DOMAIN d : d[n].shape = "list"

\* C7: a set or delete through an accessor of one instance changes neither
\* the raw store of another instance nor what any of its accessors returns.
C7_ExclusiveStore ==
    [][(last'.op \in {"set", "delete"} /\ nops' # nops) =>
          \A e \in EntIds \ {last'.ent} :
              Alive(e) =>
                  /\ heap'[ents'[e].extra] = heap[ents[e].extra]
                  /\ \A a \in DeclaredAttrs(ents[e].cls) :
                        Descriptor_get(a, heap'[ents'[e].extra].d)
                            = Descriptor_get(a, heap[ents[e].extra].d)]_vars

\* C8: every named value given at construction has a typed accessor and went
\* through its set: the raw store is the one that construction without named
\* values followed by those sets leaves, and the instance holds no named
\* value outside the raw store.
C8_KwargsThroughAccessors ==
    (last.op = "construct" /\ last.res.kind = "return") =>
        /\ \A i \in 1..Len(last.kwargs) : last.kwargs[i][1] \in DeclaredAttrs(last.attr)
        /\ ExtraOf(last.ent) = SetInOrder(last.pre, last.kwargs)
        /\ ents[last.ent].attrs = NoAttrs

\* C9: construction with an `extra` that is not a mapping, or a mapping with
\* a value that is not a list of strings, raises TypeError, so that no
\* instance has a raw store of another shape.
C9_ExtraShapeChecked ==
    /\ (/\ last.op = "construct" /\ last.arg[2] # 0
        /\ (heap[last.arg[2]].kind # "dict" \/ ~WellShaped(last.pre))) =>
            (last.res.kind = "raise" /\ last.res.exc = "TypeError")
    /\ \A e \in EntIds : Alive(e) => WellShaped(ExtraOf(e))

====
